---- MODULE Spec2Model ----
(***************************************************************************)
(* Model of inputd (src/inputd/src/main.rs): the button loop (gpio_loop),  *)
(* the playback command channel (std::sync::mpsc) and the playback         *)
(* supervisor (playback_loop, stop, play_url), together with the child     *)
(* processes the supervisor starts; the volume loop (adc_loop) with the    *)
(* calibration (measurement_to_angle, map_potentiometer_value) and the     *)
(* main thread joining the volume thread.                                  *)
(*                                                                         *)
(* External facilities are modelled by their documented behaviour at the   *)
(* place the program calls them:                                           *)
(*  - debouncr::DebouncerStateful<u16, Repeat16> (main.rs:184-194, :233):  *)
(*    a 16 bit shift register of samples plus the last edge reported.      *)
(*  - std::sync::mpsc::channel (main.rs:436): an unbounded FIFO.           *)
(*  - std::process::Child and waitpid(2)/kill(2): spawn, try_wait, wait,   *)
(*    nix::sys::signal::kill. A Child caches the exit status once          *)
(*    try_wait or wait collected it; dropping a Child neither kills nor    *)
(*    reaps the process. try_wait and wait fail only with ECHILD, that is  *)
(*    when the process has terminated and its status cannot be collected   *)
(*    (SIGCHLD ignored); a running child makes try_wait return Ok(None)    *)
(*    and makes wait block.                                                *)
(***************************************************************************)
EXTENDS Integers, Sequences, FiniteSets, TLC

\* ---------------------------------------------------------------- bounds

\* The command channel is unbounded; a tick that would make it longer than
\* this is not taken.
MaxQueue == 2

\* Process table slots (pids). A slot is reused once its process is reaped
\* and no Child refers to it, as the kernel reuses pids.
MaxProcs == 2

\* -------------------------------------------------------------- constants

\* enum Button, in declaration order (main.rs:202-209); the order of the
\* process_pin! calls in GpioPinState::update (main.rs:253-268).
Buttons == <<"Aus", "Tonabnehmer", "Ukw", "Kurz", "Mittel", "Lang">>

ButtonSet == {Buttons[i] : i \in 1..Len(Buttons)}

\* Position of a button in the declaration order.
Index(b) ==
  CASE b = "Aus"         -> 1
    [] b = "Tonabnehmer" -> 2
    [] b = "Ukw"         -> 3
    [] b = "Kurz"        -> 4
    [] b = "Mittel"      -> 5
    [] b = "Lang"        -> 6

\* The $inverted argument of each process_pin! call (main.rs:253-268).
Inverted(b) == b = "Aus"

\* The URL each button plays (main.rs:339-343).
UrlOf(b) ==
  CASE b = "Tonabnehmer" -> "http://stream.srg-ssr.ch/m/rsj/mp3_128"
    [] b = "Ukw"         -> "http://stream.radioparadise.com/mellow-flac"
    [] b = "Kurz"        -> "http://stream.radioparadise.com/eclectic-flac"
    [] b = "Mittel"      -> "http://stream.radioparadise.com/rock-flac"
    [] b = "Lang"        -> "http://streamingv2.shoutcast.com/100-PROGRESSIVEROCK"
    [] OTHER             -> ""

\* enum PlaybackCommand (main.rs:304-309).
PlayUrl(url) == [type |-> "PlayUrl", url |-> url]

Stop == [type |-> "Stop", url |-> ""]

\* No command bound yet (before the first recv).
NoCommand == [type |-> "None", url |-> ""]

\* Option<Child>::None.
NoChild == [pid |-> 0, status |-> FALSE]

\* set_volume has not been called yet.
NoVolume == [percent |-> 0, res |-> "none"]

\* A std::process::Child: the pid and whether it caches the exit status.
Child(p, cached) == [pid |-> p, status |-> cached]

Pids == 1..MaxProcs

\* ------------------------------------------------------------------ state

VARIABLES
  last_edge,   \* gpio_loop: per button, DebouncerStateful.last_edge
  halted,      \* gpio_loop: shutdown() has been invoked
  queue,       \* the mpsc channel: commands sent and not yet received
  pc,          \* playback_loop: where the supervisor thread is
  cmd,         \* playback_loop: the command bound by the last recv
  child,       \* playback_loop: `child: Option<Child>`
  pchild,      \* play_url: its local `child` between spawn and try_wait
  procs,       \* the kernel's view of the processes the supervisor started
  trace,       \* process interactions made for the command `cmd`
  user,        \* the user's position in the button-switch scenario
  deb,         \* single-channel debouncer: DebouncerStateful<u16, Repeat16>
  hist,        \* single-channel debouncer: the samples fed so far (last 16)
  out,         \* single-channel debouncer: result of the last update
  adc_pc,      \* adc_loop: where the volume thread is
  a0,          \* adc_loop: the reading of analog input 0 (i16)
  volume,      \* adc_loop: the result of map_potentiometer_value
  amixer,      \* set_volume: the percentage passed to amixer and its outcome
  main_pc      \* main: where the main thread is

vars == <<last_edge, halted, queue, pc, cmd, child, pchild, procs, trace,
          user, deb, hist, out, adc_pc, a0, volume, amixer, main_pc>>

gpio_vars == <<last_edge, halted>>

sup_vars == <<pc, cmd, child, pchild, procs, trace>>

deb_vars == <<deb, hist, out>>

adc_vars == <<adc_pc, a0, volume, amixer, main_pc>>

\* --------------------------------------------------------------- debouncer

\* type Repetitions = Repeat16: a u16 shift register, 16 equal samples.
Repetitions == 16

DebMask == 2^Repetitions - 1

\* Edge::Rising for a true level, Edge::Falling for a false one.
EdgeOf(level) == IF level THEN "Rising" ELSE "Falling"

Opposite(edge) == IF edge = "Rising" THEN "Falling" ELSE "Rising"

\* debounce_stateful_16(initial): all bits set to the initial level, and the
\* last edge that of the initial level.
debounce_stateful_16(initial) ==
  [state |-> IF initial THEN DebMask ELSE 0, last_edge |-> EdgeOf(initial)]

\* Debouncer::update: return early when the register is already saturated at
\* the sample; else shift the sample in (the bit shifted out of the u16 is
\* lost) and report Rising on all ones, Falling on all zeros.
DebouncerUpdate(state, pressed) ==
  IF state = DebMask /\ pressed THEN [state |-> state, edge |-> "None"]
  ELSE IF state = 0 /\ ~pressed THEN [state |-> state, edge |-> "None"]
  ELSE LET ns == (state * 2 + (IF pressed THEN 1 ELSE 0)) % (2^Repetitions)
       IN  [state |-> ns,
            edge  |-> IF ns = DebMask THEN "Rising"
                      ELSE IF ns = 0 THEN "Falling" ELSE "None"]

\* Mutant: every edge of the inner debouncer is passed on.
StatefulUpdate_nofilter(d, pressed) ==
  LET r == DebouncerUpdate(d.state, pressed)
  IN  [deb  |-> [state |-> r.state,
                 last_edge |-> IF r.edge # "None" THEN r.edge ELSE d.last_edge],
       edge |-> r.edge]

\* DebouncerStateful::update: an edge of the inner debouncer is reported only
\* if it differs from the last edge reported, which it then replaces.
StatefulUpdate(d, pressed) ==
  LET r == DebouncerUpdate(d.state, pressed)
  IN  IF r.edge # "None" /\ r.edge # d.last_edge
        THEN [deb |-> [state |-> r.state, last_edge |-> r.edge], edge |-> r.edge]
        ELSE [deb |-> [state |-> r.state, last_edge |-> d.last_edge],
              edge |-> "None"]

\* The last (at most Repetitions) samples, the newest last.
Window(h, sample) ==
  LET w == Append(h, sample)
  IN  IF Len(w) > Repetitions THEN Tail(w) ELSE w

\* ------------------------------------------------------------ button loop

\* Mutant: the polarity argument is ignored.
process_pin_noinvert(acc, edge, button, inverted) ==
  CASE edge = "Rising" -> [acc EXCEPT !.pressed = Append(acc.pressed, button)]
    [] edge = "Falling" -> [acc EXCEPT !.released = Append(acc.released, button)]
    [] OTHER -> acc

\* process_pin!: classify one channel's edge by the channel's polarity and
\* push the button on `pressed` or `released`.
process_pin(acc, edge, button, inverted) ==
  CASE edge = "Rising" ->
         IF inverted
           THEN [acc EXCEPT !.released = Append(acc.released, button)]
           ELSE [acc EXCEPT !.pressed = Append(acc.pressed, button)]
    [] edge = "Falling" ->
         IF inverted
           THEN [acc EXCEPT !.pressed = Append(acc.pressed, button)]
           ELSE [acc EXCEPT !.released = Append(acc.released, button)]
    [] OTHER -> acc

\* The process_pin! calls of GpioPinState::update from the i-th on.
RECURSIVE update_from(_, _, _)
update_from(i, edges, acc) ==
  IF i > Len(Buttons) THEN acc
  ELSE update_from(i + 1, edges,
                   process_pin(acc, edges[Buttons[i]], Buttons[i],
                               Inverted(Buttons[i])))

\* GpioPinState::update: (pressed, released) for the edges of this tick.
update(edges) == update_from(1, edges, [pressed |-> <<>>, released |-> <<>>])

\* Mutant: the last pressed button, not the first, decides.
gpio_sends_last(pressed, released) ==
  (IF released # <<>> /\ pressed = <<>> THEN <<Stop>> ELSE <<>>)
  \o (IF pressed # <<>> /\ pressed[Len(pressed)] # "Aus"
        THEN <<PlayUrl(UrlOf(pressed[Len(pressed)]))>> ELSE <<>>)

\* Mutant: the Off button stops playback through the channel.
gpio_sends_off_stops(pressed, released) ==
  (IF released # <<>> /\ pressed = <<>> THEN <<Stop>> ELSE <<>>)
  \o (IF pressed = <<>> THEN <<>>
      ELSE IF pressed[1] = "Aus" THEN <<Stop>>
      ELSE <<PlayUrl(UrlOf(pressed[1]))>>)

\* gpio_loop: the commands one iteration sends, in the order it sends them.
gpio_sends(pressed, released) ==
  (IF released # <<>> /\ pressed = <<>> THEN <<Stop>> ELSE <<>>)
  \o (IF pressed # <<>> /\ pressed[1] # "Aus"
        THEN <<PlayUrl(UrlOf(pressed[1]))>> ELSE <<>>)

\* gpio_loop: whether one iteration calls shutdown().
gpio_shutdown(pressed) == pressed # <<>> /\ pressed[1] = "Aus"

\* Mutant: a command sent overtakes the commands that wait.
send_front(q, c) == <<c>> \o q

\* mpsc::Sender::send: the command goes to the back of the channel.
send(q, c) == Append(q, c)

\* Mutant: a channel that holds one command (sync_channel(1)); send blocks
\* while a command waits to be received.
send_blocks_bounded(q) == q # <<>>

\* mpsc::channel() is unbounded and asynchronous: send never blocks.
send_blocks(q) == FALSE

RECURSIVE send_all(_, _)
send_all(q, cs) == IF cs = <<>> THEN q ELSE send_all(send(q, Head(cs)), Tail(cs))

\* mpsc::Receiver::recv on a non-empty channel: the front command.
recv(q) == [command |-> Head(q), rest |-> Tail(q)]

\* The edges the six debouncers can report in one tick: each channel reports
\* nothing or the edge opposite to its last one.
EdgesOf(S) ==
  [b \in ButtonSet |-> IF b \in S THEN Opposite(last_edge[b]) ELSE "None"]

\* The buttons the user operates while the supervisor runs; the pins of the
\* other stream buttons stay at rest (ButtonsSpec operates all six).
Operated == {"Aus", "Tonabnehmer", "Ukw"}

\* One iteration of gpio_loop in which the debouncers report `edges`.
gpio_tick(edges) ==
  LET r == update(edges)
      sent == gpio_sends(r.pressed, r.released)
  IN  /\ Len(queue) + Len(sent) <= MaxQueue
      /\ sent # <<>> => ~send_blocks(queue)
      /\ last_edge' = [b \in ButtonSet |->
                         IF edges[b] # "None" THEN edges[b] ELSE last_edge[b]]
      /\ queue' = send_all(queue, sent)
      /\ halted' = (halted \/ gpio_shutdown(r.pressed))
      /\ UNCHANGED sup_vars
      /\ UNCHANGED deb_vars
      /\ UNCHANGED adc_vars

\* gpio_loop, one iteration, the user operating the buttons of Operated.
gpio_loop ==
  /\ user.phase = "free"
  /\ \E S \in SUBSET Operated : gpio_tick(EdgesOf(S))
  /\ UNCHANGED user

\* gpio_loop, one iteration, the user operating the Off button and one
\* stream button (for the specification of all threads).
gpio_loop_two ==
  /\ user.phase = "free"
  /\ \E S \in SUBSET {"Aus", "Ukw"} : gpio_tick(EdgesOf(S))
  /\ UNCHANGED user

\* gpio_loop, one iteration, the user operating all six buttons.
gpio_loop_all ==
  /\ user.phase = "free"
  /\ \E S \in SUBSET ButtonSet : gpio_tick(EdgesOf(S))
  /\ UNCHANGED user

\* ------------------------------------------------------------- supervisor

Unborn == [status |-> "unborn", url |-> ""]

\* A process is alive from its creation until it terminates.
Alive(p) == procs[p].status = "running"

\* A terminated process stays in the process table ("exited") until its
\* status is collected ("reaped"), unless the kernel discarded it ("gone").
Unreaped(p) == procs[p].status \in {"running", "exited"}

\* The pids a new process can get: not in use, and no Child refers to them.
FreePids ==
  {p \in Pids : /\ procs[p].status \in {"unborn", "reaped", "gone"}
                /\ child.pid # p
                /\ pchild.pid # p}

Event(op, p, res) ==
  [op |-> op, pid |-> p, res |-> res,
   url |-> IF p \in Pids THEN procs[p].url ELSE ""]

\* Mutant: PlayUrl starts the new process without stopping the held one.
after_match_nostop(command, c) ==
  IF command.type = "PlayUrl" THEN "spawn"
  ELSE IF c # NoChild THEN "kill" ELSE "recv"

\* Mutant: Stop toggles, starting playback when nothing is held.
after_match_toggle(command, c) ==
  IF c # NoChild THEN "kill" ELSE "spawn"

\* playback_loop, the match on the command: PlayUrl calls stop() if a child
\* is held and then play_url(); Stop calls stop(), which signals and waits
\* only if a child is held.
after_match(command, c) ==
  IF command.type = "PlayUrl"
    THEN (IF c # NoChild THEN "kill" ELSE "spawn")
    ELSE (IF c # NoChild THEN "kill" ELSE "recv")

\* playback_loop after stop() returned: PlayUrl goes on to play_url().
after_stop(command) == IF command.type = "PlayUrl" THEN "spawn" ELSE "recv"

\* Mutant: stop() gives the handle up only if wait succeeded.
stop_result_on_ok(c, res) == IF res = "ok" THEN NoChild ELSE c

\* stop(): `*child = None`, whatever kill and wait returned.
stop_result(c, res) == NoChild

\* `while let Ok(command) = playback_rx.recv()`: blocks on an empty channel.
playback_recv ==
  /\ pc = "recv"
  /\ queue # <<>>
  /\ cmd' = recv(queue).command
  /\ queue' = recv(queue).rest
  /\ pc' = "match"
  /\ trace' = <<>>
  /\ UNCHANGED <<child, pchild, procs, gpio_vars, user, deb_vars, adc_vars>>

\* `match command`: up to the first call that touches a process.
playback_match ==
  /\ pc = "match"
  /\ pc' = after_match(cmd, child)
  /\ child' = IF pc' = "recv" THEN stop_result(child, "ok") ELSE child
  /\ UNCHANGED <<cmd, queue, pchild, procs, trace, gpio_vars, user, deb_vars, adc_vars>>

\* kill(2) on a pid: delivered to a process that is still in the process
\* table; for a pid that is no longer the child's, ESRCH or, if the pid has
\* been reused, delivery to whatever process has it now.
kill_results(p) ==
  IF procs[p].status \in {"running", "exited"} THEN {"ok"} ELSE {"ok", "err"}

\* stop(): signal::kill(pid, SIGINT); an error is only logged.
stop_kill ==
  /\ pc = "kill"
  /\ \E res \in kill_results(child.pid) :
       trace' = Append(trace, Event("kill", child.pid, res))
  /\ pc' = "wait"
  /\ UNCHANGED <<cmd, queue, child, pchild, procs, gpio_vars, user, deb_vars, adc_vars>>

\* Child::wait: the cached status if there is one; else it blocks until the
\* process has terminated and collects the status, or fails (ECHILD).
wait_result(c) ==
  IF c.status THEN "ok"
  ELSE IF procs[c.pid].status = "exited" THEN "ok" ELSE "err"

\* Mutant: the status is polled, not waited for.
wait_returns_poll(c) == TRUE

\* Child::wait returns at once with a cached status, and else only when the
\* process has terminated.
wait_returns(c) == c.status \/ procs[c.pid].status \in {"exited", "gone"}

\* stop(): c.wait(), an error is only logged; then `*child = None`.
stop_wait ==
  /\ pc = "wait"
  /\ wait_returns(child)
  /\ trace' = Append(trace, Event("wait", child.pid, wait_result(child)))
  /\ procs' = IF ~child.status /\ procs[child.pid].status = "exited"
                THEN [procs EXCEPT ![child.pid].status = "reaped"]
                ELSE procs
  /\ child' = stop_result(child, wait_result(child))
  /\ pc' = after_stop(cmd)
  /\ UNCHANGED <<cmd, queue, pchild, gpio_vars, user, deb_vars, adc_vars>>

\* play_url: Command::spawn() succeeded; the new Child is play_url's local.
play_url_spawn ==
  /\ pc = "spawn"
  /\ FreePids # {}
  /\ LET p == CHOOSE q \in FreePids : \A r \in FreePids : q <= r
     IN  /\ procs' = [procs EXCEPT ![p] = [status |-> "running", url |-> cmd.url]]
         /\ pchild' = Child(p, FALSE)
         /\ trace' = Append(trace, [op |-> "spawn", pid |-> p, res |-> "ok",
                                    url |-> cmd.url])
  /\ pc' = "try_wait"
  /\ UNCHANGED <<cmd, queue, child, gpio_vars, user, deb_vars, adc_vars>>

\* Mutant: the result of spawn is unwrapped; a failure ends the thread.
play_url_spawn_failed_panics ==
  /\ pc = "spawn"
  /\ trace' = Append(trace, [op |-> "spawn", pid |-> 0, res |-> "err",
                             url |-> cmd.url])
  /\ child' = NoChild
  /\ pc' = "panicked"
  /\ UNCHANGED <<cmd, queue, pchild, procs, gpio_vars, user, deb_vars, adc_vars>>

\* play_url: Command::spawn() failed; play_url returns None.
play_url_spawn_failed ==
  /\ pc = "spawn"
  /\ trace' = Append(trace, [op |-> "spawn", pid |-> 0, res |-> "err",
                             url |-> cmd.url])
  /\ child' = NoChild
  /\ pc' = "recv"
  /\ UNCHANGED <<cmd, queue, pchild, procs, gpio_vars, user, deb_vars, adc_vars>>

\* Child::try_wait after the 300 ms sleep: Ok(None) for a running process,
\* Ok(Some(status)) for a terminated one whose status it collects, Err when
\* the status cannot be collected.
try_wait_result(c) ==
  CASE procs[c.pid].status = "running" -> "none"
    [] procs[c.pid].status = "exited"  -> "some"
    [] OTHER                           -> "err"

\* play_url: what it returns for the result of try_wait.
play_url_result(c, res) ==
  CASE res = "none" -> c
    [] res = "some" -> Child(c.pid, TRUE)
    [] OTHER        -> NoChild

\* play_url: the check that the process did not exit at once, and the
\* assignment `child = play_url(&url)` in playback_loop.
play_url_try_wait ==
  /\ pc = "try_wait"
  /\ LET res == try_wait_result(pchild)
     IN  /\ trace' = Append(trace, Event("try_wait", pchild.pid, res))
         /\ procs' = IF res = "some"
                       THEN [procs EXCEPT ![pchild.pid].status = "reaped"]
                       ELSE procs
         /\ child' = play_url_result(pchild, res)
  /\ pchild' = NoChild
  /\ pc' = "recv"
  /\ UNCHANGED <<cmd, queue, gpio_vars, user, deb_vars, adc_vars>>

\* A child process terminates (by itself, or on the SIGINT): it becomes a
\* zombie whose status can be collected, or, with SIGCHLD ignored, it is
\* discarded by the kernel at once.
child_exit ==
  /\ \E p \in Pids :
       /\ procs[p].status = "running"
       /\ \E s \in {"exited", "gone"} :
            procs' = [procs EXCEPT ![p].status = s]
  /\ UNCHANGED <<pc, cmd, child, pchild, trace, queue, gpio_vars, user, deb_vars, adc_vars>>

\* ------------------------------------------------------------ calibration

\* Mutant: a typing error in one value (18002 for 19002).
LOOKUP_TABLE_VOL_typo ==
  << <<0, 10>>,      <<10, 20>>,     <<20, 280>>,    <<25, 1200>>,
     <<30, 2600>>,   <<40, 4700>>,   <<50, 7500>>,   <<60, 10000>>,
     <<70, 13500>>,  <<80, 14900>>,  <<90, 15800>>,  <<100, 16600>>,
     <<110, 17200>>, <<120, 17700>>, <<130, 18400>>, <<140, 18700>>,
     <<150, 18800>>, <<160, 19000>>, <<170, 18002>>, <<180, 19250>>,
     <<190, 20080>>, <<200, 21082>>, <<210, 21880>>, <<220, 23550>>,
     <<230, 24680>>, <<240, 25730>>, <<250, 26226>>, <<280, 26227>> >>

\* const LOOKUP_TABLE_VOL: [(u16, u16); 28], entries (angle, value); the
\* entry at Rust index i is LOOKUP_TABLE_VOL[i + 1] here.
LOOKUP_TABLE_VOL ==
  << <<0, 10>>,      <<10, 20>>,     <<20, 280>>,    <<25, 1200>>,
     <<30, 2600>>,   <<40, 4700>>,   <<50, 7500>>,   <<60, 10000>>,
     <<70, 13500>>,  <<80, 14900>>,  <<90, 15800>>,  <<100, 16600>>,
     <<110, 17200>>, <<120, 17700>>, <<130, 18400>>, <<140, 18700>>,
     <<150, 18800>>, <<160, 19000>>, <<170, 19002>>, <<180, 19250>>,
     <<190, 20080>>, <<200, 21082>>, <<210, 21880>>, <<220, 23550>>,
     <<230, 24680>>, <<240, 25730>>, <<250, 26226>>, <<280, 26227>> >>

MIN_ANGLE == LOOKUP_TABLE_VOL[1][1]

MAX_ANGLE == LOOKUP_TABLE_VOL[Len(LOOKUP_TABLE_VOL)][1]

MIN_VALUE == LOOKUP_TABLE_VOL[1][2]

MAX_VALUE == LOOKUP_TABLE_VOL[Len(LOOKUP_TABLE_VOL)][2]

\* The values of a u16, and of the i16 the ADC driver returns.
U16 == 0..(2^16 - 1)

I16 == (0 - 2^15)..(2^15 - 1)

\* `x as u16` for an integer x of at least 16 bits: the low 16 bits.
as_u16(x) == (x + 2^16) % 2^16

\* u16 subtraction: the wrapped difference, and whether it underflows (a
\* panic in a build with overflow checks, the wrapped value without them).
sub_u16(x, y) ==
  [v |-> as_u16(x - y), faults |-> IF x < y THEN {"underflow"} ELSE {}]

\* Mutant: no interpolation, the angle of the entry below.
interpolate_below(i, val) ==
  IF i = 0 THEN [angle |-> 0, faults |-> {"index"}]
  ELSE [angle |-> LOOKUP_TABLE_VOL[i][1], faults |-> {}]

\* measurement_to_angle, the interpolation between the entries at Rust
\* indices i - 1 and i (i is the Rust index).  The product and the sum are
\* u32 and cannot overflow, both factors being u16; the cast to u16 keeps
\* the low 16 bits ("truncated" if that changes the value).
interpolate(i, val) ==
  IF i = 0 THEN [angle |-> 0, faults |-> {"index"}]
  ELSE
    LET lower == LOOKUP_TABLE_VOL[i]
        upper == LOOKUP_TABLE_VOL[i + 1]
        d_angle == sub_u16(upper[1], lower[1])
        d_val == sub_u16(val, lower[2])
        d_code == sub_u16(upper[2], lower[2])
        subs == d_angle.faults \cup d_val.faults \cup d_code.faults
    IN  IF d_code.v = 0 THEN [angle |-> 0, faults |-> subs \cup {"div0"}]
        ELSE LET r == (d_angle.v * d_val.v) \div d_code.v + lower[1]
             IN  [angle |-> r % 2^16,
                  faults |-> subs \cup (IF r >= 2^16 THEN {"truncated"} ELSE {})]

RECURSIVE scan_table(_, _)
\* measurement_to_angle, `for i in 0..LOOKUP_TABLE_VOL.len()` from Rust
\* index i on, and the MAX_ANGLE after the loop.
scan_table(i, val) ==
  IF i >= Len(LOOKUP_TABLE_VOL) THEN [angle |-> MAX_ANGLE, faults |-> {}]
  ELSE IF LOOKUP_TABLE_VOL[i + 1][2] = val
         THEN [angle |-> LOOKUP_TABLE_VOL[i + 1][1], faults |-> {}]
  ELSE IF LOOKUP_TABLE_VOL[i + 1][2] > val THEN interpolate(i, val)
  ELSE scan_table(i + 1, val)

\* Mutant: the check of the lower bound is missing.
measurement_to_angle_nolower(val) ==
  IF val >= MAX_VALUE THEN [angle |-> MAX_ANGLE, faults |-> {}]
  ELSE scan_table(0, val)

\* fn measurement_to_angle(val: u16) -> u16, with the faults met on the way.
measurement_to_angle(val) ==
  IF val <= MIN_VALUE THEN [angle |-> MIN_ANGLE, faults |-> {}]
  ELSE IF val >= MAX_VALUE THEN [angle |-> MAX_ANGLE, faults |-> {}]
  ELSE scan_table(0, val)

\* map_potentiometer_value from the angle on: the percentage in u16
\* arithmetic, the assertion, and `100 - percent as u8` in u8 arithmetic.
percent_of(angle) ==
  LET d == sub_u16(angle, MIN_ANGLE)
      span == sub_u16(MAX_ANGLE, MIN_ANGLE)
      product == d.v * 100
      mul == IF product >= 2^16 THEN {"overflow"} ELSE {}
      subs == d.faults \cup span.faults \cup mul
  IN  IF span.v = 0 THEN [percent |-> 0, faults |-> subs \cup {"div0"}]
      ELSE LET percent == (product % 2^16) \div span.v
           IN  [percent |-> percent,
                faults |-> subs \cup (IF percent <= 100 THEN {} ELSE {"assert"})]

\* Mutant: the percentage is not inverted.
map_potentiometer_value_noinvert(val) ==
  LET a == measurement_to_angle(val)
      p == percent_of(a.angle)
  IN  [volume |-> p.percent % 2^8, faults |-> a.faults \cup p.faults]

\* fn map_potentiometer_value(val: u16) -> u8, with the faults met.
map_potentiometer_value(val) ==
  LET a == measurement_to_angle(val)
      p == percent_of(a.angle)
      low == p.percent % 2^8
  IN  [volume |-> (100 - low + 2^8) % 2^8,
       faults |-> a.faults \cup p.faults
                    \cup (IF low > 100 THEN {"underflow"} ELSE {})]

\* set_volume: `std::cmp::min(volume, 100)`.
clamp_volume(v) == IF v < 100 THEN v ELSE 100

\* ------------------------------------------------------------ volume loop

\* The faults that end the thread in every build (index out of bounds,
\* division by zero, a failed assertion), and those that do so only in a
\* build with overflow checks.
Panics == {"index", "div0", "assert"}

OverflowChecked == {"underflow", "overflow"}

\* The outcomes of `Command::status()` as set_volume tells them apart:
\* success, another exit status, the command could not be run.
CommandResults == {"ok", "status", "err"}

\* The readings taken while the buttons and the supervisor run.
SomeReadings == {0 - 1, 18700}

\* adc_loop: `block!(adc.read(&mut channel::SingleA0)).unwrap()`, Ok.
adc_read_a0 ==
  /\ adc_pc = "read_a0"
  /\ a0' \in SomeReadings
  /\ adc_pc' = "map"
  /\ UNCHANGED <<volume, amixer, main_pc>>
  /\ UNCHANGED <<gpio_vars, queue, sup_vars, user, deb_vars>>

\* adc_loop: a read of either input returns Err, and unwrap() panics.
adc_read_failed ==
  /\ adc_pc \in {"read_a0", "read_a1"}
  /\ adc_pc' = "panicked"
  /\ UNCHANGED <<a0, volume, amixer, main_pc>>
  /\ UNCHANGED <<gpio_vars, queue, sup_vars, user, deb_vars>>

\* Where adc_loop is after the mapping met `faults`: it goes on, or the
\* thread has panicked; with an overflow alone the build decides.
after_map(faults) ==
  IF faults \cap Panics # {} THEN {"panicked"}
  ELSE IF faults \cap OverflowChecked # {} THEN {"panicked", "read_a1"}
  ELSE {"read_a1"}

\* adc_loop: `let volume = map_potentiometer_value(a0 as u16)`.
adc_map ==
  /\ adc_pc = "map"
  /\ LET m == map_potentiometer_value(as_u16(a0))
     IN  /\ adc_pc' \in after_map(m.faults)
         /\ volume' = IF adc_pc' = "panicked" THEN volume ELSE m.volume
  /\ UNCHANGED <<a0, amixer, main_pc>>
  /\ UNCHANGED <<gpio_vars, queue, sup_vars, user, deb_vars>>

\* adc_loop: `block!(adc.read(&mut channel::SingleA1)).unwrap()`, Ok.
adc_read_a1 ==
  /\ adc_pc = "read_a1"
  /\ adc_pc' = "set_volume"
  /\ UNCHANGED <<a0, volume, amixer, main_pc>>
  /\ UNCHANGED <<gpio_vars, queue, sup_vars, user, deb_vars>>

\* Mutant: the outcome of amixer is unwrapped, a failure panics.
adc_set_volume_unwrap ==
  /\ adc_pc = "set_volume"
  /\ \E res \in CommandResults :
       /\ amixer' = [percent |-> clamp_volume(volume), res |-> res]
       /\ adc_pc' = IF res = "ok" THEN "read_a0" ELSE "panicked"
  /\ UNCHANGED <<a0, volume, main_pc>>
  /\ UNCHANGED <<gpio_vars, queue, sup_vars, user, deb_vars>>

\* adc_loop: set_volume(volume, ..) runs amixer with the clamped volume;
\* its outcome is only printed.  Then the loop sleeps and starts over.
adc_set_volume ==
  /\ adc_pc = "set_volume"
  /\ \E res \in CommandResults :
       amixer' = [percent |-> clamp_volume(volume), res |-> res]
  /\ adc_pc' = "read_a0"
  /\ UNCHANGED <<a0, volume, main_pc>>
  /\ UNCHANGED <<gpio_vars, queue, sup_vars, user, deb_vars>>

\* main: `adc_thread.join().unwrap()` returns Err once the volume thread
\* has panicked; main panics and the process ends, with all its threads.
main_join ==
  /\ main_pc = "join"
  /\ adc_pc = "panicked"
  /\ main_pc' = "exited"
  /\ UNCHANGED <<adc_pc, a0, volume, amixer>>
  /\ UNCHANGED <<gpio_vars, queue, sup_vars, user, deb_vars>>

\* The process has not ended: its threads run.
Running == main_pc # "exited"

\* ---------------------------------------------------------- specification

\* GpioPinState::new, mpsc::channel(), `let mut child = None`.
InitThreads ==
  /\ last_edge = [b \in ButtonSet |-> debounce_stateful_16(FALSE).last_edge]
  /\ halted = FALSE
  /\ queue = <<>>
  /\ pc = "recv"
  /\ cmd = NoCommand
  /\ child = NoChild
  /\ pchild = NoChild
  /\ procs = [p \in Pids |-> Unborn]
  /\ trace = <<>>
  /\ deb = debounce_stateful_16(FALSE)
  /\ hist = <<>>
  /\ out = "None"

\* The volume thread before its first reading; main waiting in join.
InitAdc ==
  /\ adc_pc = "read_a0"
  /\ a0 = 0
  /\ volume = 0
  /\ amixer = NoVolume
  /\ main_pc = "join"

InitProgram == InitThreads /\ InitAdc

NoScenario == [phase |-> "free", order |-> "", a |-> "", b |-> ""]

Init == InitProgram /\ user = NoScenario

Supervisor ==
  \/ playback_recv
  \/ playback_match
  \/ stop_kill
  \/ stop_wait
  \/ play_url_spawn
  \/ play_url_spawn_failed
  \/ play_url_try_wait
  \/ child_exit

Next == gpio_loop \/ Supervisor

Spec == Init /\ [][Next]_vars

\* The steps of the supervisor thread itself.
playback_loop ==
  \/ playback_recv
  \/ playback_match
  \/ stop_kill
  \/ stop_wait
  \/ play_url_spawn
  \/ play_url_spawn_failed
  \/ play_url_try_wait

\* The child the supervisor waits for in stop() terminates.
waited_child_exits ==
  /\ pc = "wait"
  /\ child_exit
  /\ ~Alive(child.pid)'

\* The program with a supervisor thread that is scheduled whenever it can
\* take a step, and children that terminate when they are waited for.
LiveSpec ==
  /\ Init
  /\ [][Next]_vars
  /\ WF_vars(playback_loop)
  /\ WF_vars(waited_child_exits)

\* The button loop alone, all six buttons operated; nothing is received.
ButtonsSpec == Init /\ [][gpio_loop_all]_vars

\* --------------------------------------------------- the calibration alone

\* One iteration of adc_loop for every reading the ADC driver can return.
CalibInit ==
  /\ InitThreads
  /\ user = NoScenario
  /\ adc_pc = "map"
  /\ a0 \in I16
  /\ volume = 0
  /\ amixer = NoVolume
  /\ main_pc = "join"

CalibNext == adc_map \/ adc_read_a1 \/ adc_set_volume

CalibSpec == CalibInit /\ [][CalibNext]_vars

\* ----------------------------------------------------------- all threads

\* The three threads main starts, and main itself; when the process has
\* ended no thread takes a step.
AllNext ==
  \/ Running /\ gpio_loop_two
  \/ Running /\ Supervisor
  \/ Running /\ adc_read_a0
  \/ Running /\ adc_read_failed
  \/ Running /\ adc_map
  \/ Running /\ adc_read_a1
  \/ Running /\ adc_set_volume
  \/ main_join

AllSpec == Init /\ [][AllNext]_vars

\* ------------------------------------------------- one debouncer channel

\* `$measurement.update($pin.read() == Level::Low)` for one channel, the
\* pin giving any sample.
debounce_sample ==
  /\ \E sample \in BOOLEAN :
       LET r == StatefulUpdate(deb, sample)
       IN  /\ deb' = r.deb
           /\ out' = r.edge
           /\ hist' = Window(hist, sample)
  /\ UNCHANGED <<gpio_vars, queue, sup_vars, user, adc_vars>>

DebounceSpec == Init /\ [][debounce_sample]_vars

\* ------------------------------------------- switching between two buttons

StreamButtons == ButtonSet \ {"Aus"}

\* The supervisor holds the handle of a process playing button b's stream.
Playing(b) == child # NoChild /\ procs[child.pid].url = UrlOf(b)

Drained == queue = <<>> /\ pc = "recv"

\* Button a is pressed (confirmed) while nothing plays.
user_press_a ==
  /\ user.phase = "start"
  /\ gpio_tick(EdgesOf({user.a}))
  /\ user' = [user EXCEPT !.phase = "a_down"]

\* While a's stream plays: a's release and b's press are confirmed in the
\* same tick.
user_switch_same_tick ==
  /\ user.phase = "a_down"
  /\ Playing(user.a)
  /\ gpio_tick(EdgesOf({user.a, user.b}))
  /\ user' = [user EXCEPT !.phase = "done", !.order = "same_tick"]

\* While a's stream plays: a's release is confirmed first.
user_release_a_first ==
  /\ user.phase = "a_down"
  /\ Playing(user.a)
  /\ gpio_tick(EdgesOf({user.a}))
  /\ user' = [user EXCEPT !.phase = "a_up"]

\* b's press is confirmed in a later tick than a's release.
user_press_b_second ==
  /\ user.phase = "a_up"
  /\ gpio_tick(EdgesOf({user.b}))
  /\ user' = [user EXCEPT !.phase = "done", !.order = "release_first"]

\* While a's stream plays: b's press is confirmed first.
user_press_b_first ==
  /\ user.phase = "a_down"
  /\ Playing(user.a)
  /\ gpio_tick(EdgesOf({user.b}))
  /\ user' = [user EXCEPT !.phase = "both_down"]

\* a's release is confirmed in a later tick than b's press.
user_release_a_second ==
  /\ user.phase = "both_down"
  /\ gpio_tick(EdgesOf({user.a}))
  /\ user' = [user EXCEPT !.phase = "done", !.order = "press_first"]

SwitchInit ==
  /\ InitProgram
  /\ user \in {[phase |-> "start", order |-> "", a |-> x, b |-> y] :
                  x \in StreamButtons, y \in StreamButtons} 
  /\ user.a # user.b

SwitchNext ==
  \/ user_press_a
  \/ user_switch_same_tick
  \/ user_release_a_first
  \/ user_press_b_second
  \/ user_press_b_first
  \/ user_release_a_second
  \/ Supervisor

SwitchSpec == SwitchInit /\ [][SwitchNext]_vars

\* ------------------------------------------------------------------ claims

\* A sequence of buttons is in declaration order, without repetition.
InOrder(seq) ==
  \A i \in 1..(Len(seq) - 1) : Index(seq[i]) < Index(seq[i + 1])

\* The elements of a sequence.
Range(seq) == {seq[i] : i \in DOMAIN seq}

\* The edges the debouncers reported in a step of the button loop: the
\* channels whose last edge changed.
StepEdges ==
  [b \in ButtonSet |->
     IF last_edge'[b] # last_edge[b] THEN last_edge'[b] ELSE "None"]

\* The button of a non-empty set that comes first in the declaration order.
FirstOf(S) == CHOOSE b \in S : \A c \in S : Index(b) <= Index(c)

\* A step of the supervisor thread.
SupStep == pc' # pc

\* C1: at no instant is more than one child process started by the
\* supervisor alive, whatever spawn, try_wait and wait return.
C1_AtMostOneAlive == Cardinality({p \in Pids : Alive(p)}) <= 1

\* C1 witness: a second process runs, started after the first was signalled
\* and waited for.
C1_Witness ==
  /\ pc = "recv"
  /\ Len(trace) = 4
  /\ trace[1].op = "kill" /\ trace[2].op = "wait"
  /\ trace[3].op = "spawn" /\ trace[3].res = "ok"
  /\ child # NoChild /\ Alive(child.pid)

\* C2: when a child process is created every child created earlier has been
\* reaped (no two children are ever un-reaped at once); and a PlayUrl that
\* finds a child held makes exactly these process calls, in this order:
\* SIGINT to the held child, wait for the same child, one spawn of the new
\* URL (and its try_wait).
C2_ReapBeforeStart ==
  /\ \A p \in Pids : \A q \in Pids : (Unreaped(p) /\ Unreaped(q)) => p = q
  /\ pc = "try_wait" => \A p \in Pids : Unreaped(p) => p = pchild.pid
  /\ (cmd.type = "PlayUrl" /\ trace # <<>> /\ trace[1].op = "kill") =>
       /\ Len(trace) <= 4
       /\ \A i \in DOMAIN trace :
            trace[i].op = <<"kill", "wait", "spawn", "try_wait">>[i]
       /\ Len(trace) >= 2 => trace[2].pid = trace[1].pid
       /\ Len(trace) >= 3 => trace[3].url = cmd.url
       /\ Len(trace) >= 4 => trace[4].pid = trace[3].pid
       /\ pc = "recv" => Len(trace) >= 3

\* C2 witness: PlayUrl(B) handled while A's process was held: SIGINT to A,
\* wait for A, start of B.
C2_Witness ==
  /\ pc = "recv"
  /\ cmd.type = "PlayUrl"
  /\ Len(trace) = 4
  /\ trace[1].op = "kill" /\ trace[1].url # cmd.url /\ trace[1].url # ""
  /\ trace[2].op = "wait" /\ trace[2].res = "ok"
  /\ trace[3].op = "spawn" /\ trace[3].res = "ok" /\ trace[3].url = cmd.url

\* C3: the channel is a FIFO between the button loop and the supervisor:
\* every step leaves the channel alone, or puts commands at its back
\* without touching the supervisor, or is the supervisor, done with the
\* previous command, taking the front command and binding exactly it.
C3_Fifo ==
  [][ \/ queue' = queue /\ cmd' = cmd
      \/ /\ Len(queue') > Len(queue)
         /\ SubSeq(queue', 1, Len(queue)) = queue
         /\ UNCHANGED sup_vars
      \/ /\ queue # <<>>
         /\ pc = "recv"
         /\ queue' = Tail(queue)
         /\ cmd' = Head(queue)
         /\ pc' = "match" ]_vars

\* C3 witness: two different commands wait in the channel while the
\* supervisor is busy with an earlier one.
C3_Witness ==
  /\ Len(queue) = 2
  /\ queue[1] # queue[2]
  /\ pc \in {"kill", "wait", "spawn", "try_wait"}

\* C4: in every tick of the button loop: if a button was pressed, only the
\* action of the first pressed button in declaration order is performed
\* (shutdown for Off, one PlayUrl of its stream for any other) and no Stop
\* is sent; otherwise, if a button was released, exactly one Stop is sent;
\* otherwise nothing is done. At most one command is sent per tick.
C4_Dispatch ==
  [][ \A r \in {update(StepEdges)} :
      \A P \in {Range(r.pressed)} :
      \A R \in {Range(r.released)} :
          /\ Len(queue') <= Len(queue) + 1
          /\ IF P # {}
               THEN IF FirstOf(P) = "Aus"
                      THEN queue' = queue /\ halted'
                      ELSE /\ queue' = Append(queue, PlayUrl(UrlOf(FirstOf(P))))
                           /\ halted' = halted
               ELSE IF R # {}
                      THEN queue' = Append(queue, Stop) /\ halted' = halted
                      ELSE queue' = queue /\ halted' = halted ]_vars

\* C4 witness: Ukw and Lang were pressed in one tick (no other button ever
\* moved, nothing is received in ButtonsSpec) and only Ukw's stream was sent.
C4_Witness ==
  /\ last_edge = [b \in ButtonSet |->
                    IF b \in {"Ukw", "Lang"} THEN "Rising" ELSE "Falling"]
  /\ ~halted
  /\ queue = <<PlayUrl(UrlOf("Ukw"))>>

\* C7: update classifies a rising edge of the inverted channel (Off) as a
\* release and a falling edge as a press, and for the five other channels
\* rising as press and falling as release; a button is in at most one of
\* the two lists, at most once, and both lists are in declaration order.
C7_Polarity ==
  [][ \A e \in {StepEdges} :
      \A r \in {update(e)} :
          /\ \A b \in ButtonSet :
               /\ (b \in Range(r.pressed)) <=>
                    (IF b = "Aus" THEN e[b] = "Falling" ELSE e[b] = "Rising")
               /\ (b \in Range(r.released)) <=>
                    (IF b = "Aus" THEN e[b] = "Rising" ELSE e[b] = "Falling")
          /\ Range(r.pressed) \cap Range(r.released) = {}
          /\ InOrder(r.pressed)
          /\ InOrder(r.released)
          /\ (e["Aus"] = "Rising" /\ Range(r.pressed) = {}) =>
               queue' = Append(queue, Stop) ]_vars

\* C7 witness: the only edge so far is a rising edge of the Off channel, and
\* it was taken as a release (a Stop was sent, shutdown was not called).
C7_Witness ==
  /\ last_edge = [b \in ButtonSet |-> IF b = "Aus" THEN "Rising" ELSE "Falling"]
  /\ ~halted
  /\ queue = <<Stop>>

\* C8: in a tick whose first pressed button is Off, shutdown is called and
\* nothing is sent: the channel and the supervisor's state (a running child
\* included) are unchanged; in a tick whose first pressed button is another
\* button, exactly one PlayUrl with that button's URL is sent and shutdown
\* is not called.
C8_OffButton ==
  [][ \A P \in {Range(update(StepEdges).pressed)} :
          P # {} =>
            IF FirstOf(P) = "Aus"
              THEN halted' /\ queue' = queue /\ UNCHANGED sup_vars
              ELSE /\ queue' = Append(queue, PlayUrl(UrlOf(FirstOf(P))))
                   /\ halted' = halted ]_vars

\* C8 witness: shutdown has been called (Off is down) while a child runs and
\* a command waits in the channel.
C8_Witness ==
  /\ halted
  /\ last_edge["Aus"] = "Falling"
  /\ Len(queue) = 1
  /\ child # NoChild /\ Alive(child.pid)

\* C9: handling Stop while no child is held signals, waits for and starts no
\* process and leaves the supervisor idle; and every Stop leaves it idle,
\* so that any further Stop in a row is that no-op.
C9_StopIdle ==
  [][ /\ (pc = "match" /\ SupStep /\ cmd = Stop /\ child = NoChild) =>
           /\ pc' = "recv"
           /\ child' = NoChild
           /\ trace = <<>>
           /\ UNCHANGED <<procs, trace, pchild>>
      /\ (SupStep /\ pc' = "recv" /\ cmd = Stop) => child' = NoChild ]_vars

\* C9 witness: a Stop was handled with no process interaction, the supervisor
\* is idle and the next command is a Stop again.
C9_Witness ==
  /\ pc = "recv"
  /\ cmd = Stop
  /\ trace = <<>>
  /\ child = NoChild
  /\ queue # <<>> /\ Head(queue) = Stop

\* C10: handling Stop while a child is held sends SIGINT to that child, then
\* waits for that child, which returns only once the child is not alive,
\* then holds no handle and is idle, whatever kill and wait returned.
C10_StopPlaying ==
  [][ /\ (pc = "match" /\ SupStep /\ cmd = Stop /\ child # NoChild) =>
           pc' = "kill" /\ child' = child /\ trace' = trace
      /\ (pc = "kill" /\ SupStep) =>
           /\ pc' = "wait"
           /\ child' = child
           /\ procs' = procs
           /\ Len(trace') = Len(trace) + 1
           /\ trace'[Len(trace')].op = "kill"
           /\ trace'[Len(trace')].pid = child.pid
      /\ (pc = "wait" /\ SupStep) =>
           /\ ~Alive(child.pid)
           /\ Len(trace') = Len(trace) + 1
           /\ trace'[Len(trace')].op = "wait"
           /\ trace'[Len(trace')].pid = child.pid
           /\ child' = NoChild
           /\ cmd = Stop => pc' = "recv" ]_vars

\* C10 witness: a Stop found a child held; both kill and wait reported an
\* error, and the supervisor is idle with no handle.
C10_Witness ==
  /\ pc = "recv"
  /\ cmd = Stop
  /\ child = NoChild
  /\ Len(trace) = 2
  /\ trace[1].op = "kill" /\ trace[1].res = "err"
  /\ trace[2].op = "wait" /\ trace[2].res = "err"

\* The switch from button user.a to button user.b is complete and the
\* supervisor has handled every command it caused.
SwitchDone == user.phase = "done" /\ Drained

\* play_url returned a handle for button b's stream: the handle is held, or
\* it was held and the last command stopped it.
HandleObtained(b) ==
  \/ Playing(b)
  \/ \E i \in DOMAIN trace : trace[i].op = "kill" /\ trace[i].url = UrlOf(b)

\* C5: a's stream playing, a released and b pressed, the two edges confirmed
\* in one tick or in different ticks in either order: once the channel is
\* drained, and play_url gave a handle for b's stream, the supervisor holds
\* that handle.  gpio_loop breaks this when b's press is confirmed in an
\* earlier tick than a's release: the release then sends Stop after
\* PlayUrl(b), and the supervisor ends without a child.
C5_SwitchAnyOrder ==
  (SwitchDone /\ HandleObtained(user.b)) => Playing(user.b)

\* What gpio_loop does give for a switch: with the two edges confirmed in
\* one tick, or the release confirmed in an earlier tick than the press, the
\* last command handled is PlayUrl of b's stream, and the supervisor holds
\* the handle play_url returned for it.
SwitchInOrderPlaysB ==
  (SwitchDone /\ user.order \in {"same_tick", "release_first"}) =>
    /\ cmd = PlayUrl(UrlOf(user.b))
    /\ trace # <<>>
    /\ trace[Len(trace)].op \in {"spawn", "try_wait"}
    /\ trace[Len(trace)].res \in {"none", "some"} => Playing(user.b)
    /\ HandleObtained(user.b) => Playing(user.b)

\* A switch with the release confirmed in an earlier tick than the press:
\* a's process was stopped by the Stop, and b's stream plays.
SwitchReleaseFirstPlays ==
  /\ SwitchDone
  /\ user.order = "release_first"
  /\ Playing(user.b)
  /\ Alive(child.pid)
  /\ trace[1].op = "spawn"

\* C11: when Command::spawn fails, the handling of the PlayUrl ends with the
\* supervisor back at recv holding no handle, and no process it started is
\* alive; if it held a child before, that child was signalled and waited for
\* first and is no longer alive.
C11_SpawnFails ==
  [][ (pc = "spawn" /\ SupStep /\ trace'[Len(trace')].res = "err") =>
        /\ pc' = "recv"
        /\ child' = NoChild
        /\ pchild' = NoChild
        /\ procs' = procs
        /\ \A p \in Pids : ~Alive(p)
        /\ child = NoChild
        /\ \/ trace = <<>>
           \/ /\ Len(trace) = 2
              /\ trace[1].op = "kill" /\ trace[2].op = "wait"
              /\ trace[1].pid = trace[2].pid
              /\ procs[trace[1].pid].status \in {"reaped", "gone"} ]_vars

\* C11 witness: a PlayUrl found a child held, stopped it, and the spawn of
\* the new process failed: the supervisor is idle.
C11_Witness ==
  /\ pc = "recv"
  /\ cmd.type = "PlayUrl"
  /\ child = NoChild
  /\ Len(trace) = 3
  /\ trace[1].op = "kill" /\ trace[2].op = "wait"
  /\ trace[3].op = "spawn" /\ trace[3].res = "err"
  /\ \A p \in Pids : ~Alive(p)

\* The raw code of the current iteration of adc_loop: `a0 as u16`.
Code == as_u16(a0)

\* The angle measurement_to_angle returns for a code.
AngleOf(code) == measurement_to_angle(code).angle

\* The reference mapping of the calibration: the bounds, an exact match, and
\* else the interpolation between the two entries around the code.
RefAngle(code) ==
  IF code <= 10 THEN 0
  ELSE IF code >= 26227 THEN 280
  ELSE IF \E i \in DOMAIN LOOKUP_TABLE_VOL : LOOKUP_TABLE_VOL[i][2] = code
    THEN LOOKUP_TABLE_VOL[CHOOSE i \in DOMAIN LOOKUP_TABLE_VOL :
                            LOOKUP_TABLE_VOL[i][2] = code][1]
  ELSE LET i == CHOOSE j \in 1..(Len(LOOKUP_TABLE_VOL) - 1) :
                  /\ LOOKUP_TABLE_VOL[j][2] < code
                  /\ code < LOOKUP_TABLE_VOL[j + 1][2]
           lo == LOOKUP_TABLE_VOL[i]
           up == LOOKUP_TABLE_VOL[i + 1]
       IN  lo[1] + ((up[1] - lo[1]) * (code - lo[2])) \div (up[2] - lo[2])

\* C12: for every code in 0..65535 measurement_to_angle gives the angle of
\* the reference mapping; in particular 0 -> 0, 27000 -> 280, 64000 -> 280,
\* 26226 -> 250, 19000 -> 160, 19250 -> 180, 19126 -> 175.
C12_AngleReference ==
  /\ Code \in U16
  /\ AngleOf(Code) = RefAngle(Code)
  /\ Code = 0 => AngleOf(Code) = 0
  /\ Code = 27000 => AngleOf(Code) = 280
  /\ Code = 64000 => AngleOf(Code) = 280
  /\ Code = 26226 => AngleOf(Code) = 250
  /\ Code = 19000 => AngleOf(Code) = 160
  /\ Code = 19250 => AngleOf(Code) = 180
  /\ Code = 19126 => AngleOf(Code) = 175

\* C12 witness: the iteration for the interpolated code 19126 has mapped
\* the reading; the angle 175 gives the volume 38.
C12_Witness ==
  /\ a0 = 19126
  /\ adc_pc = "read_a1"
  /\ AngleOf(Code) = 175
  /\ volume = 38

\* The calibration table is strictly increasing in angle and in value.
TableIncreasing ==
  \A i \in 1..(Len(LOOKUP_TABLE_VOL) - 1) :
    /\ LOOKUP_TABLE_VOL[i][1] < LOOKUP_TABLE_VOL[i + 1][1]
    /\ LOOKUP_TABLE_VOL[i][2] < LOOKUP_TABLE_VOL[i + 1][2]

\* C13: the table is strictly increasing in both fields; a code strictly
\* between two consecutive entries gets an angle between their angles; and
\* the angle of a code is never below the angle of the code before it.
C13_Monotonic ==
  /\ TableIncreasing
  /\ \A i \in 1..(Len(LOOKUP_TABLE_VOL) - 1) :
       (LOOKUP_TABLE_VOL[i][2] < Code /\ Code < LOOKUP_TABLE_VOL[i + 1][2]) =>
         /\ LOOKUP_TABLE_VOL[i][1] <= AngleOf(Code)
         /\ AngleOf(Code) <= LOOKUP_TABLE_VOL[i + 1][1]
  /\ Code > 0 => AngleOf(Code - 1) <= AngleOf(Code)

\* C13 witness: the code 19001, strictly between the entries (160, 19000)
\* and (170, 19002), has been mapped; its angle is 165.
C13_Witness ==
  /\ Code = 19001
  /\ adc_pc = "read_a1"
  /\ AngleOf(Code) = 165
  /\ AngleOf(Code - 1) = 160

\* The volume map_potentiometer_value gives for an angle.
VolumeOfAngle(angle) == 100 - percent_of(angle).percent

\* A larger angle never gives a larger volume, over the angles of the table.
VolumeDecreasing ==
  \A g \in MIN_ANGLE..(MAX_ANGLE - 1) : VolumeOfAngle(g + 1) <= VolumeOfAngle(g)

\* C14: once adc_loop has mapped a reading, the volume is
\* 100 - floor((angle - minAngle) * 100 / (maxAngle - minAngle)) for the angle
\* of the code, within 0..100, 100 for the minimum angle and 0 for the
\* maximum angle, and it never grows with the angle; in particular
\* 0 -> 100, 26227 -> 0, 30000 -> 0, 18700 -> 50.
C14_VolumePercent ==
  adc_pc # "map" =>
    /\ volume = 100 - ((AngleOf(Code) - MIN_ANGLE) * 100)
                        \div (MAX_ANGLE - MIN_ANGLE)
    /\ volume \in 0..100
    /\ AngleOf(Code) = MIN_ANGLE => volume = 100
    /\ AngleOf(Code) = MAX_ANGLE => volume = 0
    /\ VolumeDecreasing
    /\ Code > 0 => volume <= map_potentiometer_value(Code - 1).volume
    /\ Code = 0 => volume = 100
    /\ Code = 26227 => volume = 0
    /\ Code = 30000 => volume = 0
    /\ Code = 18700 => volume = 50

\* C14 witness: the code 18700 has been mapped to the volume 50.
C14_Witness ==
  /\ Code = 18700
  /\ adc_pc = "read_a1"
  /\ volume = 50

\* C15: no code makes the calibration fail: no access below the table, no
\* division by zero, no u16 subtraction that underflows, no product that
\* overflows, an angle that fits 16 bits, the assertion percent <= 100
\* holds; so adc_loop never panics in the mapping.
C15_NoFailure ==
  /\ measurement_to_angle(Code).faults = {}
  /\ percent_of(AngleOf(Code)).faults = {}
  /\ map_potentiometer_value(Code).faults = {}
  /\ adc_pc # "panicked"

\* C15 witness: the code 11, the first that reaches the interpolation (at
\* Rust index 1), has been mapped without a fault.
C15_Witness ==
  /\ Code = 11
  /\ adc_pc = "read_a1"
  /\ volume = 100
  /\ AngleOf(Code) = 1

\* The percentage adc_loop passes to amixer for the reading r.
VolumeSet(r) == clamp_volume(map_potentiometer_value(as_u16(r)).volume)

\* C20: for every reading in -32768..32767, once set_volume has run: the
\* percentage passed is in 0..100; it is 100 for a reading below the
\* table's minimum value, negative readings included; and it is not above
\* the percentage for the reading one below.  adc_loop breaks this for the
\* negative readings: `a0 as u16` turns them into codes from 32768 up, above
\* the table's maximum, and the percentage passed is 0.
C20_SignedReadings ==
  amixer.res # "none" =>
    /\ a0 \in I16
    /\ amixer.percent \in 0..100
    /\ a0 < MIN_VALUE => amixer.percent = 100
    /\ a0 > 0 - 2^15 => amixer.percent <= VolumeSet(a0 - 1)

\* A failure has arisen in a sampling loop: a read of the ADC failed, the
\* volume-control command failed, or the shutdown command was run (its
\* outcome, failed or not, is only printed by shutdown()).
LoopFailure ==
  \/ adc_pc = "panicked"
  \/ amixer.res \in {"status", "err"}
  \/ halted

\* C16 as claimed: whatever failure has arisen in a sampling loop, the other
\* loop and the supervisor keep running.
C16_AllFailuresContained == LoopFailure => Running

\* C16 as amended: a call of set_volume, whatever the outcome of amixer,
\* and a call of shutdown() leave the state of the other threads alone, the
\* loop that made the call goes on and the process runs; the volume thread
\* panics only in a read of the ADC, and the process ends only after that.
C16_CommandFailuresContained ==
  [][ /\ amixer' # amixer =>
           /\ Running'
           /\ adc_pc' = "read_a0"
           /\ UNCHANGED <<gpio_vars, queue, sup_vars>>
      /\ (halted' /\ ~halted) =>
           /\ Running'
           /\ UNCHANGED <<queue, sup_vars, adc_vars>>
      /\ (adc_pc' = "panicked" /\ adc_pc # "panicked") =>
           adc_pc \in {"read_a0", "read_a1"}
      /\ ~Running' => adc_pc' = "panicked" ]_vars

\* C16 witness: amixer could not be run and shutdown() has been called; the
\* process runs, the volume loop is at its next reading and the supervisor
\* has since started a stream that plays.
C16_Witness ==
  /\ amixer.res = "err"
  /\ halted
  /\ Running
  /\ adc_pc = "read_a0"
  /\ child # NoChild /\ Alive(child.pid)
  /\ pc = "recv"

\* C17: with children that terminate when they are waited for, the command
\* at the front of the channel is eventually received: the supervisor, not
\* having just received one, comes to the point right after recv (so, the
\* channel being FIFO, every command sent is received); and the handling of
\* a received command ends with the supervisor back at recv, whatever
\* spawn, try_wait and wait returned.
C17_Progress ==
  /\ []((queue # <<>> /\ pc # "match") => <>(pc = "match"))
  /\ [](pc # "recv" => <>(pc = "recv"))

\* C17 witness: the process started for a PlayUrl had exited by the time of
\* try_wait; the supervisor is back at recv and the channel is empty.
C17_Witness ==
  /\ pc = "recv"
  /\ queue = <<>>
  /\ cmd.type = "PlayUrl"
  /\ trace # <<>>
  /\ trace[Len(trace)].op = "try_wait"
  /\ trace[Len(trace)].res = "some"

\* The supervisor is blocked in c.wait() on a child that has not terminated.
BlockedOnChild == pc = "wait" /\ ~wait_returns(child)

\* The commands the tick with the edges of the buttons S sends.
SendsOf(S) ==
  gpio_sends(update(EdgesOf(S)).pressed, update(EdgesOf(S)).released)

\* C18: while the supervisor is blocked waiting for a child, every tick of
\* the button loop can be taken, whatever edges it finds and whatever waits
\* in the channel; the tick updates the debouncers, appends its commands
\* to the channel behind those that wait, calls shutdown() for a press of
\* Off, and leaves the supervisor where it is.
C18_ButtonLoopFree ==
  [][ BlockedOnChild =>
        /\ \A S \in SUBSET Operated :
             Len(queue) + Len(SendsOf(S)) <= MaxQueue =>
               ENABLED gpio_tick(EdgesOf(S))
        /\ last_edge' # last_edge =>
             /\ \E S \in SUBSET Operated :
                  /\ last_edge' = [b \in ButtonSet |->
                        IF b \in S THEN EdgesOf(S)[b] ELSE last_edge[b]]
                  /\ queue' = queue \o SendsOf(S)
                  /\ halted' = (halted \/ gpio_shutdown(update(EdgesOf(S)).pressed))
             /\ UNCHANGED sup_vars
             /\ BlockedOnChild' ]_vars

\* C18 witness: the supervisor is blocked on a running child; since it
\* received the command it handles, the button loop has filled the channel
\* and called shutdown().
C18_Witness ==
  /\ BlockedOnChild
  /\ Alive(child.pid)
  /\ Len(queue) = MaxQueue
  /\ queue[1] # queue[2]
  /\ halted

\* C19: stop() sends SIGINT only to a process the supervisor started and
\* whose exit status has not been collected.  play_url breaks this: when
\* try_wait finds the new process terminated it collects the status and
\* still returns the handle, and the next stop() signals that pid.
C19_SignalOnlyUnreaped ==
  [][ (pc = "kill" /\ SupStep) =>
        /\ child.pid \in Pids
        /\ procs[child.pid].status # "unborn"
        /\ procs[child.pid].status # "reaped" ]_vars

\* C6: a sample makes the debouncer report an edge exactly if it and the 15
\* samples before it are all equal and differ from the confirmed value; the
\* edge is Rising for a true sample and Falling for a false one, and the
\* confirmed value changes exactly when an edge is reported.  Before the first
\* sample the confirmed value is false.
C6_Debounce ==
  [][ \A w \in {hist'} :
      \A sample \in {w[Len(w)]} :
      \A confirmed \in {deb.last_edge = "Rising"} :
          /\ hist = <<>> => ~confirmed
          /\ (out' # "None") <=>
               /\ Len(w) = Repetitions
               /\ \A i \in DOMAIN w : w[i] = sample
               /\ sample # confirmed
          /\ out' # "None" => out' = EdgeOf(sample)
          /\ ((deb'.last_edge = "Rising") # confirmed) <=> (out' # "None")
    ]_deb_vars

\* C6 witness: after a rising edge, the 16th false sample in a row has just
\* given the falling edge.
C6_Witness ==
  /\ out = "Falling"
  /\ deb.last_edge = "Falling"
  /\ hist = [i \in 1..Repetitions |-> FALSE]

====
